---- MODULE Spec2Model ----
(***************************************************************************)
(* Model of the ingestion pipeline of Test-BTL-Python:                     *)
(*   btl/http.py              RateLimiter, HttpClient.get                  *)
(*   btl/fbref.py             FbrefScraper                                 *)
(*   btl/footballtransfers.py FootballTransfersScraper                     *)
(*   btl/database.py          create_table, upsert_rows (SQLite)           *)
(*   scripts/collect_data.py  build_players_table, build_transfers_table,  *)
(*                            collect                                      *)
(*                                                                         *)
(* Conventions.  A Python string is a sequence of lexemes (<<"Ann">>,      *)
(* <<"€", "25M">>), so that prefix matching, stripping and concatenation   *)
(* are computed rather than assumed.  An optional value (None or x) is the *)
(* sequence <<>> or <<x>>.  A scalar held in a DataFrame cell, a record    *)
(* field or a table cell is a tagged record, see Str/Num/NaN/None.         *)
(***************************************************************************)
EXTENDS Integers, Sequences, FiniteSets, TLC

\* ------------------------------------------------------------------ bounds

\* HttpClient.max_retries ranges over 1..MaxRetriesBound (the default is 3).
MaxRetriesBound == 3

\* The tables the DataFrame functions are applied to have 1..MaxRows rows.
MaxRows == 3

\* Number of runs of collect that are followed.
MaxRuns == 2

\* -------------------------------------------------------- program constants

\* session.get(url, timeout=kwargs.pop("timeout", 30), ...)
DefaultTimeout == 30

\* self.status_forcelist = set(status_forcelist or {429, 500, 502, 503, 504})
status_forcelist == {429, 500, 502, 503, 504}

\* ------------------------------------------------------------------ values

Str(s) == [t |-> "str", n |-> 0, s |-> s]
Num(n) == [t |-> "num", n |-> n, s |-> <<>>]
NaN == [t |-> "nan", n |-> 0, s |-> <<>>]
None == [t |-> "none", n |-> 0, s |-> <<>>]

\* An exception object: its class, the status it reports (HTTPError) and the
\* attempt of HttpClient.get that created it (0: not created by get).
Exc(type, status, at) == [type |-> type, status |-> status, at |-> at]

\* ------------------------------------------------------------ the network

\* A page body, as far as its consumers look at it: the stats_standard table
\* (absent, or the cell texts), and the two valuation nodes.
BlankPage == [table |-> <<>>, info |-> <<>>, head |-> <<>>]

\* The text of a valuation node: nothing, a bare symbol, symbol and figure,
\* a bare figure, and a figure set off from its symbol by white space.
NodeTexts == {<<>>, <<"€">>, <<"€", "25M">>, <<"25M">>, <<"$", " ", "5M">>}

ValuationPages ==
    {[table |-> <<>>, info |-> i, head |-> h] :
        i \in {<<>>} \cup {<<x>> : x \in NodeTexts},
        h \in {<<>>, <<(<<"25M">>)>>, <<(<<"£", "9M">>)>>}}

FtBase == "https://www.footballtransfers.com/en/players/"
FbrefBase == "https://fbref.com/en/comps/"

SiteOf(u) ==
    IF u = <<>> THEN "none"
    ELSE IF u[1] = FtBase THEN "ft"
    ELSE IF u[1] = FbrefBase THEN "fbref"
    ELSE "other"

T(x) == <<x>>

StatsColumns == <<"Player", "Squad", "Min", "Gls">>
AnnRow(min, gls) == <<T("Ann"), T("Ars"), min, gls>>
BobRow(min, gls) == <<T("Bob"), T("Che"), min, gls>>
HeaderRow == <<T("Player"), T("Squad"), T("Min"), T("Gls")>>
TotalsRow == <<T("Squad Total"), <<>>, T("91"), T("12")>>

\* The stats tables the site serves: two players of whom one is above 90
\* minutes; the same with a repeated header row and a totals row; nobody
\* above the threshold; one player listed twice; no minutes column.
StatsTables ==
    {[columns |-> StatsColumns, cells |-> <<AnnRow(T("91"), T("12")), BobRow(T("45"), <<>>)>>],
     [columns |-> StatsColumns,
      cells |-> <<AnnRow(T("91"), T("12")), HeaderRow, BobRow(T("91"), <<>>), TotalsRow>>],
     [columns |-> StatsColumns, cells |-> <<AnnRow(T("45"), T("12"))>>],
     [columns |-> StatsColumns, cells |-> <<AnnRow(T("91"), T("12")), AnnRow(T("91"), <<>>)>>],
     [columns |-> <<"Player", "Squad", "Gls">>, cells |-> <<<<T("Ann"), T("Ars"), T("12")>>>>]}

StatsPages == {BlankPage} \cup {[table |-> <<t>>, info |-> <<>>, head |-> <<>>] : t \in StatsTables}

PagesAt(site) ==
    IF site = "ft" THEN ValuationPages
    ELSE IF site = "fbref" THEN StatsPages
    ELSE {BlankPage}

\* What one session.get can do: raise, or answer with a status and a body.
NetErrors == {"ConnectionError", "Timeout"}
Raises(e) == [kind |-> "exc", exc |-> e, status |-> 0, body |-> BlankPage]
Answers(st, page) == [kind |-> "resp", exc |-> "", status |-> st, body |-> page]

OutcomesAt(site) ==
    {Raises(e) : e \in NetErrors}
        \cup {Answers(st, BlankPage) : st \in {503, 429, 404}}
        \cup {Answers(200, p) : p \in PagesAt(site)}

VARIABLES
    task,        \* the public entry point that is running, "none" when idle
    max_retries, \* HttpClient.max_retries
    gpc,         \* HttpClient.get: "idle", "loop", "returned", "raised"
    url,         \* get's url argument
    kwargs,      \* get's **kwargs, a function on a subset of {"timeout"}
    attempt,     \* the loop variable of get
    last_error,  \* get's last_error, optional
    response,    \* the response get returned, optional
    raised,      \* the exception get raised, optional
    waits,       \* number of RateLimiter.wait calls of the current get
    issued,      \* the GETs of the current get: timeout and outcome of each
    fpc,         \* fetch_transfer_value: "idle", "next", "fetching", "done", "raised"
    fargs,       \* its arguments: player_name and season
    cand,        \* index of the candidate url the loop is at
    ftvResult,   \* the TransferRecord it returned, optional
    ftvRaised,   \* the exception it let through, optional
    ftvLog,      \* per candidate tried: its url and how it ended
    spc,         \* collect_player_stats: "idle", "start", "fetching", "done", "raised"
    sargs,       \* its arguments: season and min_minutes
    statsGets,   \* number of client.get calls it has made
    statsBody,   \* the body of the response it parsed, optional
    statsResult, \* the DataFrame it returned, optional
    statsRaised, \* the exception it raised, optional
    frame,       \* the DataFrame functions applied to one table on their own
    db,          \* the SQLite store
    cpc,         \* collect: "idle", "stats", "loop", "done", "aborted"
    cargs,       \* its arguments: season and min_minutes
    player_stats,     \* its DataFrame of retained players, optional
    transfer_records, \* its list of TransferRecords
    cerr,        \* the exception that ended it, optional
    clog,        \* what it has done so far, in order
    cin,         \* what the two sites served it: the stats body, the records
    runs,        \* number of runs of collect that have ended
    prev         \* the run before: its arguments, what it was served, the store

getVars == <<gpc, url, kwargs, attempt, last_error, response, raised, waits, issued>>
ftvVars == <<fpc, fargs, cand, ftvResult, ftvRaised, ftvLog>>
statsVars == <<spc, sargs, statsGets, statsBody, statsResult, statsRaised>>
collectVars == <<db, cpc, cargs, player_stats, transfer_records, cerr, clog, cin, runs, prev>>
vars == <<task, max_retries, getVars, ftvVars, statsVars, frame, collectVars>>

\* -------------------------------------------------------- HttpClient.get

\* last_error = None; for attempt in range(1, max_retries + 1): ...
get_enter(u, kw) ==
    /\ gpc' = "loop"
    /\ url' = u
    /\ kwargs' = kw
    /\ attempt' = 1
    /\ last_error' = <<>>
    /\ response' = <<>>
    /\ raised' = <<>>
    /\ waits' = 0
    /\ issued' = <<>>

\* The caller has taken get's result.
get_leave ==
    /\ gpc' = "idle"
    /\ url' = <<>>
    /\ kwargs' = <<>>
    /\ attempt' = 0
    /\ last_error' = <<>>
    /\ response' = <<>>
    /\ raised' = <<>>
    /\ waits' = 0
    /\ issued' = <<>>

\* kwargs.pop("timeout", 30)
PopTimeoutValue(kw) == IF "timeout" \in DOMAIN kw THEN kw["timeout"] ELSE DefaultTimeout
PopTimeoutRest(kw) == [k \in DOMAIN kw \ {"timeout"} |-> kw[k]]

\* Mutant: every error status is retried, not only the forcelisted ones.
IsRetryableStatus_AnyError(st) == st >= 400

\* response.status_code in self.status_forcelist
IsRetryableStatus(st) == st \in status_forcelist

\* The exception one attempt ends with, if any: the one session.get raised, or
\* requests.HTTPError(f"Unexpected status {status}") for a forcelisted status.
AttemptError(o, k) ==
    IF o.kind = "exc" THEN <<Exc(o.exc, 0, k)>>
    ELSE IF IsRetryableStatus(o.status) THEN <<Exc("HTTPError", o.status, k)>>
    ELSE <<>>

\* One iteration of the loop: wait, GET, then return the response or record the
\* error and sleep backoff_factor ** attempt.
GetAttempt ==
    /\ gpc = "loop"
    /\ attempt <= max_retries
    /\ \E o \in OutcomesAt(SiteOf(url)) :
        LET err == AttemptError(o, attempt) IN
        /\ waits' = waits + 1
        /\ issued' = Append(issued, [timeout |-> PopTimeoutValue(kwargs), outcome |-> o])
        /\ kwargs' = PopTimeoutRest(kwargs)
        /\ IF err = <<>>
           THEN /\ gpc' = "returned"
                /\ response' = <<[status |-> o.status, body |-> o.body, n |-> attempt]>>
                /\ UNCHANGED <<attempt, last_error>>
           ELSE /\ last_error' = err
                /\ attempt' = attempt + 1
                /\ UNCHANGED <<gpc, response>>
    /\ UNCHANGED <<task, max_retries, url, raised, ftvVars, statsVars, frame, collectVars>>

\* Mutant: the loop is range(1, max_retries), one attempt short.
GetExhausted_OneShort ==
    /\ gpc = "loop"
    /\ attempt >= max_retries
    /\ gpc' = "raised"
    /\ raised' = IF last_error = <<>> THEN <<Exc("AssertionError", 0, 0)>> ELSE last_error
    /\ UNCHANGED <<task, max_retries, url, kwargs, attempt, last_error, response, waits, issued>>
    /\ UNCHANGED <<ftvVars, statsVars, frame, collectVars>>

\* assert last_error is not None; raise last_error
GetExhausted ==
    /\ gpc = "loop"
    /\ attempt > max_retries
    /\ gpc' = "raised"
    /\ raised' = IF last_error = <<>> THEN <<Exc("AssertionError", 0, 0)>> ELSE last_error
    /\ UNCHANGED <<task, max_retries, url, kwargs, attempt, last_error, response, waits, issued>>
    /\ UNCHANGED <<ftvVars, statsVars, frame, collectVars>>

\* ------------------------------------------------------------ DataFrames

(* A DataFrame is [columns: the column names in order, dtype: the dtype of   *)
(* each column, rows: the rows in order, each a function from column name  *)
(* to scalar].  A numeric column ("float64") holds Num and NaN only; an    *)
(* "object" column holds whatever it was given, numbers in an object       *)
(* column read from HTML being the strings they were written as.           *)

\* float(text): the number a text denotes, optional.
ParseNumber(text) ==
    IF Len(text) # 1 THEN <<>>
    ELSE CASE text[1] = "12" -> <<12>>
           [] text[1] = "45" -> <<45>>
           [] text[1] = "90" -> <<90>>
           [] text[1] = "91" -> <<91>>
           [] OTHER -> <<>>

\* The texts pandas reads as missing (its default na_values), the empty cell
\* among them.
IsNaText(text) == text = <<>> \/ text \in {<<"n/a">>, <<"NaN">>, <<"N/A">>}

\* pd.read_html(str(table), header=[0, 1])[0], columns flattened: a column
\* whose cells all denote numbers (or are missing) becomes numeric, any other
\* column keeps its texts.
read_html(table) ==
    LET ncols == Len(table.columns)
        numeric(j) == \A i \in 1..Len(table.cells) :
                          \/ IsNaText(table.cells[i][j])
                          \/ ParseNumber(table.cells[i][j]) # <<>>
        colno(c) == CHOOSE j \in 1..ncols : table.columns[j] = c
        cell(i, j) ==
            IF IsNaText(table.cells[i][j]) THEN NaN
            ELSE IF numeric(j) THEN Num(ParseNumber(table.cells[i][j])[1])
            ELSE Str(table.cells[i][j])
    IN [columns |-> table.columns,
        dtype |-> [c \in {table.columns[j] : j \in 1..ncols} |->
                      IF numeric(colno(c)) THEN "float64" ELSE "object"],
        rows |-> [i \in 1..Len(table.cells) |->
                      [c \in {table.columns[j] : j \in 1..ncols} |-> cell(i, colno(c))]]]

ColumnSet(df) == {df.columns[j] : j \in 1..Len(df.columns)}

\* df[mask]: the rows the predicate keeps, in order.
RECURSIVE KeepRows(_, _, _)
KeepRows(rows, keep, i) ==
    IF i > Len(rows) THEN <<>>
    ELSE (IF keep[i] THEN <<rows[i]>> ELSE <<>>) \o KeepRows(rows, keep, i + 1)

isna(v) == v.t \in {"nan", "none"}

\* df["Player"].str.contains("Squad Total|Opponent", na=False)
ContainsTotals(v) ==
    v.t = "str" /\ \E i \in 1..Len(v.s) : v.s[i] \in {"Squad Total", "Opponent"}

\* The rows fetch_player_table keeps: a player is named, the row is not a
\* repeated header row and not a squad or opponent total.
IsPlayerRow(r) ==
    /\ ~isna(r["Player"])
    /\ r["Player"] # Str(<<"Player">>)
    /\ ~ContainsTotals(r["Player"])

\* fetch_player_table, from the located table on.
parse_player_table(table) ==
    LET df == read_html(table) IN
    [df EXCEPT !.rows = KeepRows(df.rows, [i \in 1..Len(df.rows) |-> IsPlayerRow(df.rows[i])], 1)]

minutes_col_candidates == <<"Playing Time Min", "Playing Time Min 90s", "Min", "Minutes">>

\* for candidate in minutes_col_candidates: if candidate in df.columns: break
\* The index of the first candidate that is a column, 0 when none is.
FirstPresent(df) ==
    LET present == {k \in 1..Len(minutes_col_candidates) :
                        minutes_col_candidates[k] \in ColumnSet(df)}
    IN IF present = {} THEN 0
       ELSE CHOOSE k \in present : \A m \in present : k <= m

\* pd.to_numeric(value, errors="coerce") of one scalar.
to_numeric(v) ==
    IF v.t = "num" THEN v
    ELSE IF v.t = "str" /\ ParseNumber(v.s) # <<>> THEN Num(ParseNumber(v.s)[1])
    ELSE NaN

\* Mutant: the threshold itself passes.
AboveThreshold_Inclusive(v, min_minutes) == v.t = "num" /\ v.n >= min_minutes

\* numeric_minutes > min_minutes, False for NaN.
AboveThreshold(v, min_minutes) == v.t = "num" /\ v.n > min_minutes

\* filter_by_minutes, given that a minutes column exists: the rows above the
\* threshold, their minutes column replaced by its numeric reading.
filter_by_minutes(df, min_minutes) ==
    LET minutes_col == minutes_col_candidates[FirstPresent(df)]
        numeric_minutes == [i \in 1..Len(df.rows) |-> to_numeric(df.rows[i][minutes_col])]
        mask == [i \in 1..Len(df.rows) |-> AboveThreshold(numeric_minutes[i], min_minutes)]
        coerced == [i \in 1..Len(df.rows) |->
                       [df.rows[i] EXCEPT ![minutes_col] = numeric_minutes[i]]]
    IN [columns |-> df.columns,
        dtype |-> [df.dtype EXCEPT ![minutes_col] = "float64"],
        rows |-> KeepRows(coerced, mask, 1)]

\* df.insert(0, "Season", season)
insert_season(df, season) ==
    [columns |-> <<"Season">> \o df.columns,
     dtype |-> [c \in ColumnSet(df) \cup {"Season"} |->
                   IF c = "Season" THEN "object" ELSE df.dtype[c]],
     rows |-> [i \in 1..Len(df.rows) |->
                   [c \in ColumnSet(df) \cup {"Season"} |->
                       IF c = "Season" THEN Str(season) ELSE df.rows[i][c]]]]

\* collect_player_stats after the download: the DataFrame, or the exception
\* of the step that failed.
stats_from_page(page, season, min_minutes) ==
    IF page.table = <<>> THEN [err |-> <<Exc("ValueError", 0, 0)>>, df |-> <<>>]
    ELSE LET df == parse_player_table(page.table[1]) IN
         IF FirstPresent(df) = 0 THEN [err |-> <<Exc("KeyError", 0, 0)>>, df |-> <<>>]
         ELSE IF "Season" \in ColumnSet(df) THEN [err |-> <<Exc("ValueError", 0, 0)>>, df |-> <<>>]
         ELSE [err |-> <<>>, df |-> <<insert_season(filter_by_minutes(df, min_minutes), season)>>]

\* sample = df[column].dropna(); not sample.empty and is_numeric_dtype(sample)
IsRealColumn(df, c) ==
    LET sample == {i \in 1..Len(df.rows) : ~isna(df.rows[i][c])} IN
    sample # {} /\ df.dtype[c] = "float64"

RECURSIVE AppendMissing(_, _)
AppendMissing(cols, wanted) ==
    IF wanted = <<>> THEN cols
    ELSE AppendMissing(
            IF \E j \in 1..Len(cols) : cols[j] = wanted[1] THEN cols ELSE Append(cols, wanted[1]),
            Tail(wanted))

\* The schema build_players_table derives: REAL or TEXT per column of the
\* DataFrame, then Player, Season and Squad as TEXT where they are missing.
players_schema(df) ==
    LET cols == AppendMissing(df.columns, <<"Player", "Season", "Squad">>) IN
    [columns |-> cols,
     type |-> [c \in {cols[j] : j \in 1..Len(cols)} |->
                  IF c \in ColumnSet(df) /\ IsRealColumn(df, c) THEN "REAL" ELSE "TEXT"]]

\* ---------------------------------------------- FootballTransfersScraper

RECURSIVE LStrip(_)
LStrip(s) == IF s # <<>> /\ s[1] = " " THEN LStrip(Tail(s)) ELSE s

RECURSIVE RStrip(_)
RStrip(s) == IF s # <<>> /\ s[Len(s)] = " " THEN RStrip(SubSeq(s, 1, Len(s) - 1)) ELSE s

\* str.strip()
Strip(s) == RStrip(LStrip(s))

\* name.lower(), lexeme by lexeme.
LowerOf(x) ==
    CASE x = "Ann" -> "ann"
      [] x = "Bob" -> "bob"
      [] x = "Ray" -> "ray"
      [] OTHER -> x

\* A lexeme of [a-z0-9\s-].
IsSlugLexeme(x) == x \in {"ann", "bob", "ray", " ", "-"}

\* re.sub(r"\s+", "-", s): each run of white space becomes one hyphen.
RECURSIVE HyphenateRuns(_)
HyphenateRuns(s) ==
    IF s = <<>> THEN <<>>
    ELSE IF s[1] = " "
         THEN <<"-">> \o HyphenateRuns(LStrip(s))
         ELSE <<s[1]>> \o HyphenateRuns(Tail(s))

_slugify(name) ==
    LET lowered == [i \in 1..Len(name) |-> LowerOf(name[i])]
        kept == SelectSeq(lowered, IsSlugLexeme)
    IN HyphenateRuns(Strip(kept))

candidate_urls(player_name) ==
    LET slug == _slugify(player_name) IN
    << <<FtBase>> \o slug, <<FtBase>> \o slug \o <<"/profile">> >>

CurrencySymbols == {"€", "£", "$"}

\* The pair (value, currency) parsed from a page: the first of the two nodes
\* that exists is taken, its text split by re.match(r"([€£$]?)(.*)", text).
_parse_transfer_value(page) ==
    LET value_node == IF page.info # <<>> THEN page.info ELSE page.head IN
    IF value_node # <<>>
    THEN LET text == Strip(value_node[1])
             hasSymbol == text # <<>> /\ text[1] \in CurrencySymbols
             group1 == IF hasSymbol THEN <<text[1]>> ELSE <<>>
             group2 == IF hasSymbol THEN Tail(text) ELSE text
             currency == IF group1 = <<>> THEN None ELSE Str(group1)
             value == Strip(group2)
         IN <<IF value = <<>> THEN None ELSE Str(value), currency>>
    ELSE <<None, None>>

TransferRecord(player, season, transfer_value, currency, u) ==
    [player |-> player, season |-> season, transfer_value |-> transfer_value,
     currency |-> currency, url |-> u]

\* Python truthiness of a scalar: None and the empty string are falsy.
Truthy(v) == ~(v.t = "none" \/ (v.t = "str" /\ v.s = <<>>))

\* Mutant: only HTTP errors are caught, a network error gets through.
CatchesException_OnlyHttp(e) == e.type = "HTTPError"

\* except Exception as exc: every exception get raises is one.
CatchesException(e) == TRUE

ftv_enter(player_name, season) ==
    /\ fpc' = "next"
    /\ fargs' = <<[player_name |-> player_name, season |-> season]>>
    /\ cand' = 1
    /\ ftvResult' = <<>>
    /\ ftvRaised' = <<>>
    /\ ftvLog' = <<>>

ftv_leave ==
    /\ fpc' = "idle"
    /\ fargs' = <<>>
    /\ cand' = 0
    /\ ftvResult' = <<>>
    /\ ftvRaised' = <<>>
    /\ ftvLog' = <<>>

\* for url in self.candidate_urls(player_name): response = self.client.get(url)
FtvTry ==
    /\ fpc = "next"
    /\ cand <= Len(candidate_urls(fargs[1].player_name))
    /\ fpc' = "fetching"
    /\ get_enter(candidate_urls(fargs[1].player_name)[cand], <<>>)
    /\ UNCHANGED <<task, max_retries, fargs, cand, ftvResult, ftvRaised, ftvLog>>
    /\ UNCHANGED <<statsVars, frame, collectVars>>

\* Mutant: the record is returned for any page that was downloaded.
FtvGot_AnyPage ==
    /\ fpc = "fetching"
    /\ gpc \in {"returned", "raised"}
    /\ get_leave
    /\ IF gpc = "raised"
       THEN IF CatchesException(raised[1])
            THEN /\ fpc' = "next"
                 /\ cand' = cand + 1
                 /\ ftvLog' = Append(ftvLog, [url |-> url, how |-> "error"])
                 /\ UNCHANGED <<ftvResult, ftvRaised>>
            ELSE /\ fpc' = "raised"
                 /\ ftvRaised' = raised
                 /\ ftvLog' = Append(ftvLog, [url |-> url, how |-> "error"])
                 /\ UNCHANGED <<cand, ftvResult>>
       ELSE LET parsed == _parse_transfer_value(response[1].body) IN
            IF TRUE
            THEN /\ fpc' = "done"
                 /\ ftvResult' = <<TransferRecord(fargs[1].player_name, fargs[1].season,
                                                  parsed[1], parsed[2], Str(url))>>
                 /\ ftvLog' = Append(ftvLog, [url |-> url, how |-> "value"])
                 /\ UNCHANGED <<cand, ftvRaised>>
            ELSE /\ fpc' = "next"
                 /\ cand' = cand + 1
                 /\ ftvLog' = Append(ftvLog, [url |-> url, how |-> "novalue"])
                 /\ UNCHANGED <<ftvResult, ftvRaised>>
    /\ UNCHANGED <<task, max_retries, fargs, statsVars, frame, collectVars>>

\* get has ended: continue with the next candidate on an exception or on a
\* page without a value, return the populated record otherwise.
FtvGot ==
    /\ fpc = "fetching"
    /\ gpc \in {"returned", "raised"}
    /\ get_leave
    /\ IF gpc = "raised"
       THEN IF CatchesException(raised[1])
            THEN /\ fpc' = "next"
                 /\ cand' = cand + 1
                 /\ ftvLog' = Append(ftvLog, [url |-> url, how |-> "error"])
                 /\ UNCHANGED <<ftvResult, ftvRaised>>
            ELSE /\ fpc' = "raised"
                 /\ ftvRaised' = raised
                 /\ ftvLog' = Append(ftvLog, [url |-> url, how |-> "error"])
                 /\ UNCHANGED <<cand, ftvResult>>
       ELSE LET parsed == _parse_transfer_value(response[1].body) IN
            IF Truthy(parsed[1])
            THEN /\ fpc' = "done"
                 /\ ftvResult' = <<TransferRecord(fargs[1].player_name, fargs[1].season,
                                                  parsed[1], parsed[2], Str(url))>>
                 /\ ftvLog' = Append(ftvLog, [url |-> url, how |-> "value"])
                 /\ UNCHANGED <<cand, ftvRaised>>
            ELSE /\ fpc' = "next"
                 /\ cand' = cand + 1
                 /\ ftvLog' = Append(ftvLog, [url |-> url, how |-> "novalue"])
                 /\ UNCHANGED <<ftvResult, ftvRaised>>
    /\ UNCHANGED <<task, max_retries, fargs, statsVars, frame, collectVars>>

\* The loop is over: TransferRecord(player, season, None, None, None).
FtvNotFound ==
    /\ fpc = "next"
    /\ cand > Len(candidate_urls(fargs[1].player_name))
    /\ fpc' = "done"
    /\ ftvResult' = <<TransferRecord(fargs[1].player_name, fargs[1].season, None, None, None)>>
    /\ UNCHANGED <<task, max_retries, getVars, fargs, cand, ftvRaised, ftvLog>>
    /\ UNCHANGED <<statsVars, frame, collectVars>>

\* ------------------------------------- entry point: fetch_transfer_value

PlayerNames == {<<"Ann">>, <<"Bob", " ", "Ray", "!">>}
Seasons == {<<"2024", "-", "2025">>, <<"2023", "/", "2024">>}

StartFtv ==
    /\ task = "none"
    /\ runs = 0
    /\ task' = "ftv"
    /\ \E p \in PlayerNames, se \in Seasons : ftv_enter(p, se)
    /\ UNCHANGED <<max_retries, getVars, statsVars, frame, collectVars>>

FinishFtv ==
    /\ task = "ftv"
    /\ fpc \in {"done", "raised"}
    /\ task' = "none"
    /\ ftv_leave
    /\ UNCHANGED <<max_retries, getVars, statsVars, frame, collectVars>>

\* ------------------------------------------------------------ FbrefScraper

\* season.replace("/", "-")
Sanitize(season) == [i \in 1..Len(season) |-> IF season[i] = "/" THEN "-" ELSE season[i]]

\* The competition id, 9, is part of the path.
premier_league_stats_url(season) ==
    <<FbrefBase, "9", "/">> \o Sanitize(season) \o <<"/stats/">> \o Sanitize(season)
        \o <<"-Premier-League-Stats">>

stats_enter(season, min_minutes) ==
    /\ spc' = "start"
    /\ sargs' = <<[season |-> season, min_minutes |-> min_minutes]>>
    /\ statsGets' = 0
    /\ statsBody' = <<>>
    /\ statsResult' = <<>>
    /\ statsRaised' = <<>>

stats_leave ==
    /\ spc' = "idle"
    /\ sargs' = <<>>
    /\ statsGets' = 0
    /\ statsBody' = <<>>
    /\ statsResult' = <<>>
    /\ statsRaised' = <<>>

\* fetch_player_table: response = self.client.get(url)
StatsFetch ==
    /\ spc = "start"
    /\ spc' = "fetching"
    /\ statsGets' = statsGets + 1
    /\ get_enter(premier_league_stats_url(sargs[1].season), <<>>)
    /\ UNCHANGED <<task, max_retries, ftvVars, sargs, statsBody, statsResult, statsRaised, frame, collectVars>>

\* Mutant: a page without the table is downloaded once more.
StatsGot_Refetch ==
    /\ spc = "fetching"
    /\ gpc \in {"returned", "raised"}
    /\ IF gpc = "returned" /\ response[1].body.table = <<>> /\ statsGets < 2
       THEN /\ get_enter(url, <<>>)
            /\ statsGets' = statsGets + 1
            /\ UNCHANGED <<spc, statsBody, statsResult, statsRaised>>
       ELSE /\ get_leave
            /\ UNCHANGED statsGets
            /\ IF gpc = "raised"
               THEN /\ spc' = "raised"
                    /\ statsRaised' = raised
                    /\ UNCHANGED <<statsBody, statsResult>>
               ELSE LET r == stats_from_page(response[1].body, sargs[1].season,
                                             sargs[1].min_minutes) IN
                    /\ statsBody' = <<response[1].body>>
                    /\ statsRaised' = r.err
                    /\ statsResult' = r.df
                    /\ spc' = IF r.err = <<>> THEN "done" ELSE "raised"
    /\ UNCHANGED <<task, max_retries, ftvVars, sargs, frame, collectVars>>

\* get has ended: its exception goes on to the caller; its response is
\* parsed, filtered and tagged, and a missing table or minutes column raises.
StatsGot ==
    /\ spc = "fetching"
    /\ gpc \in {"returned", "raised"}
    /\ get_leave
    /\ IF gpc = "raised"
       THEN /\ spc' = "raised"
            /\ statsRaised' = raised
            /\ UNCHANGED <<statsBody, statsResult>>
       ELSE LET r == stats_from_page(response[1].body, sargs[1].season,
                                     sargs[1].min_minutes) IN
            /\ statsBody' = <<response[1].body>>
            /\ statsRaised' = r.err
            /\ statsResult' = r.df
            /\ spc' = IF r.err = <<>> THEN "done" ELSE "raised"
    /\ UNCHANGED <<task, max_retries, ftvVars, sargs, statsGets, frame, collectVars>>

\* ------------------------------------- entry point: collect_player_stats

Thresholds == {45, 90}

StartStats ==
    /\ task = "none"
    /\ runs = 0
    /\ task' = "stats"
    /\ \E se \in Seasons, m \in Thresholds : stats_enter(se, m)
    /\ UNCHANGED <<max_retries, getVars, ftvVars, frame, collectVars>>

FinishStats ==
    /\ task = "stats"
    /\ spc \in {"done", "raised"}
    /\ task' = "none"
    /\ stats_leave
    /\ UNCHANGED <<max_retries, getVars, ftvVars, frame, collectVars>>

\* ---------------------------------------------------------------- SQLite

(* The store maps each table name to nothing (no such table) or to one      *)
(* table: [columns, type: the column definitions, unique: the column sets   *)
(* under a PRIMARY KEY or UNIQUE constraint, rows: the rows in rowid order, *)
(* each a function from column to scalar, None being NULL].                 *)

TableNames == {"player_stats", "player_transfers"}
EmptyStore == [n \in TableNames |-> <<>>]

\* A column definition that declares the column a key.  The definitions the
\* program passes are the bare type names "REAL" and "TEXT".
DeclaresKey(definition) == definition \in {"TEXT PRIMARY KEY", "TEXT UNIQUE"}

\* Mutant: the table is created with UNIQUE (Player, Season).
create_table_Keyed(store, name, schema) ==
    [store EXCEPT ![name] =
        <<[columns |-> schema.columns, type |-> schema.type,
           unique |-> {{"Player", "Season"}}, rows |-> <<>>]>>]

\* DROP TABLE IF EXISTS name; CREATE TABLE name (col definition, ...)
create_table(store, name, schema) ==
    [store EXCEPT ![name] =
        <<[columns |-> schema.columns,
           type |-> schema.type,
           unique |-> {{c} : c \in {d \in DOMAIN schema.type : DeclaresKey(schema.type[d])}},
           rows |-> <<>>]>>]

\* row.get(col)
RowGet(row, col) == IF col \in DOMAIN row THEN row[col] ELSE None

SeqSet(q) == {q[i] : i \in 1..Len(q)}

\* Two rows agree on every column of the set, NULL agreeing with nothing.
SameKey(a, b, keys) == \A k \in keys : a[k] = b[k] /\ a[k].t # "none"

\* executemany: the statement run for each parameter row in turn, on the rows
\* so far.  INSERT appends a row (columns not listed are NULL) unless it
\* collides on a unique column set; then ON CONFLICT(keys) DO UPDATE assigns
\* the listed non-key columns of the colliding row, and a plain INSERT fails.
RECURSIVE ExecuteMany(_, _, _, _, _)
ExecuteMany(tbl, stored, values, columns, conflict_keys) ==
    IF values = <<>> THEN [err |-> <<>>, rows |-> stored]
    ELSE LET new == [c \in SeqSet(tbl.columns) |->
                        IF c \in SeqSet(columns) THEN values[1][c] ELSE None]
             hits(keys) == {i \in 1..Len(stored) : SameKey(stored[i], new, keys)}
             collides == \E u \in tbl.unique : hits(u) # {}
         IN IF ~collides
            THEN ExecuteMany(tbl, Append(stored, new), Tail(values), columns, conflict_keys)
            ELSE IF conflict_keys # <<>> /\ hits(SeqSet(conflict_keys)) # {}
            THEN LET i == CHOOSE i \in hits(SeqSet(conflict_keys)) : TRUE
                     updated == [c \in SeqSet(tbl.columns) |->
                                    IF c \in SeqSet(columns) \ SeqSet(conflict_keys)
                                    THEN new[c] ELSE stored[i][c]]
                 IN ExecuteMany(tbl, [stored EXCEPT ![i] = updated], Tail(values),
                                columns, conflict_keys)
            ELSE [err |-> <<Exc("IntegrityError", 0, 0)>>, rows |-> stored]

\* Mutant: the rows written before the failing one stay in the table.
upsert_rows_NoRollback(tbl, rows, conflict_keys) ==
    IF rows = <<>> THEN [err |-> <<>>, tbl |-> tbl]
    ELSE LET columns == rows[1].columns
             values == [i \in 1..Len(rows) |->
                           [c \in SeqSet(columns) |-> RowGet(rows[i].cells, c)]]
         IN IF tbl = <<>> \/ ~(SeqSet(columns) \subseteq SeqSet(tbl[1].columns))
            THEN [err |-> <<Exc("OperationalError", 0, 0)>>, tbl |-> tbl]
            ELSE IF conflict_keys # <<>> /\ SeqSet(columns) \subseteq SeqSet(conflict_keys)
            THEN [err |-> <<Exc("OperationalError", 0, 0)>>, tbl |-> tbl]
            ELSE IF conflict_keys # <<>> /\ SeqSet(conflict_keys) \notin tbl[1].unique
            THEN [err |-> <<Exc("OperationalError", 0, 0)>>, tbl |-> tbl]
            ELSE LET run == ExecuteMany(tbl[1], tbl[1].rows, values, columns, conflict_keys) IN
                 [err |-> run.err, tbl |-> <<[tbl[1] EXCEPT !.rows = run.rows]>>]

\* upsert_rows on one table: the exception raised, if any, and the table
\* afterwards.  Nothing is run for an empty batch.  The statement is compiled
\* before any row is written, and SQLite refuses "ON CONFLICT(keys)" unless
\* some PRIMARY KEY or UNIQUE constraint of the table is on exactly those
\* columns ("ON CONFLICT clause does not match any PRIMARY KEY or UNIQUE
\* constraint"); `with connection:` rolls the batch back on an exception.
\* A statement whose columns are all conflict keys has an empty SET clause and
\* does not compile either ("incomplete input").
upsert_rows(tbl, rows, conflict_keys) ==
    IF rows = <<>> THEN [err |-> <<>>, tbl |-> tbl]
    ELSE LET columns == rows[1].columns
             values == [i \in 1..Len(rows) |->
                           [c \in SeqSet(columns) |-> RowGet(rows[i].cells, c)]]
         IN IF tbl = <<>> \/ ~(SeqSet(columns) \subseteq SeqSet(tbl[1].columns))
            THEN [err |-> <<Exc("OperationalError", 0, 0)>>, tbl |-> tbl]
            ELSE IF conflict_keys # <<>> /\ SeqSet(columns) \subseteq SeqSet(conflict_keys)
            THEN [err |-> <<Exc("OperationalError", 0, 0)>>, tbl |-> tbl]
            ELSE IF conflict_keys # <<>> /\ SeqSet(conflict_keys) \notin tbl[1].unique
            THEN [err |-> <<Exc("OperationalError", 0, 0)>>, tbl |-> tbl]
            ELSE LET run == ExecuteMany(tbl[1], tbl[1].rows, values, columns, conflict_keys) IN
                 IF run.err # <<>> THEN [err |-> run.err, tbl |-> tbl]
                 ELSE [err |-> <<>>, tbl |-> <<[tbl[1] EXCEPT !.rows = run.rows]>>]

\* ------------------------------------------------- scripts/collect_data.py

NA == Str(<<"N/a">>)

\* df.fillna("N/a").to_dict(orient="records"): one dict per row, its keys the
\* columns in order.
prepared_rows(df) ==
    [i \in 1..Len(df.rows) |->
        [columns |-> df.columns,
         cells |-> [c \in ColumnSet(df) |->
                       IF isna(df.rows[i][c]) THEN NA ELSE df.rows[i][c]]]]

\* value or "N/a"
OrNA(v) == IF Truthy(v) THEN v ELSE NA

TransferColumns == <<"Player", "Season", "TransferValue", "Currency", "SourceUrl">>

transfers_schema == [columns |-> TransferColumns, type |-> [c \in SeqSet(TransferColumns) |-> "TEXT"]]

transfer_rows(records) ==
    [i \in 1..Len(records) |->
        [columns |-> TransferColumns,
         cells |-> [c \in SeqSet(TransferColumns) |->
                       CASE c = "Player" -> Str(records[i].player)
                         [] c = "Season" -> Str(records[i].season)
                         [] c = "TransferValue" -> OrNA(records[i].transfer_value)
                         [] c = "Currency" -> OrNA(records[i].currency)
                         [] c = "SourceUrl" -> OrNA(records[i].url)]]]

\* create_table, then upsert_rows of the batch keyed by Player and Season: the
\* store afterwards and the exception raised, if any.
persist(store, name, schema, rows) ==
    LET created == create_table(store, name, schema)
        written == upsert_rows(created[name], rows, <<"Player", "Season">>)
    IN [store |-> [created EXCEPT ![name] = written.tbl], err |-> written.err]

build_players_table(store, df) ==
    persist(store, "player_stats", players_schema(df), prepared_rows(df))

build_transfers_table(store, records) ==
    persist(store, "player_transfers", transfers_schema, transfer_rows(records))

\* player_stats["Player"].tolist(), each name a string
player_list(df) == [i \in 1..Len(df.rows) |-> df.rows[i]["Player"].s]

\* ------------------------------------------------------------- collect

Event(ev, who) == [ev |-> ev, who |-> who]

collect_leave ==
    /\ cpc' = "idle"
    /\ cargs' = <<>>
    /\ player_stats' = <<>>
    /\ transfer_records' = <<>>
    /\ cerr' = <<>>
    /\ clog' = <<>>
    /\ cin' = [stats |-> <<>>, records |-> <<>>]

\* collect(season, min_minutes): fbref_scraper.collect_player_stats(...)
StartCollect ==
    /\ task = "none"
    /\ runs < MaxRuns
    /\ task' = "collect"
    /\ cpc' = "stats"
    /\ \E se \in Seasons, m \in Thresholds :
        /\ cargs' = <<[season |-> se, min_minutes |-> m]>>
        /\ stats_enter(se, m)
    /\ UNCHANGED <<max_retries, getVars, ftvVars, frame>>
    /\ UNCHANGED <<db, player_stats, transfer_records, cerr, clog, cin, runs, prev>>

\* Mutant: the table is created before the stats result is looked at.
CollectStats_ConnectFirst ==
    /\ cpc = "stats"
    /\ spc \in {"done", "raised"}
    /\ stats_leave
    /\ IF spc = "raised"
       THEN /\ cpc' = "aborted"
            /\ cerr' = statsRaised
            /\ db' = create_table(db, "player_stats", transfers_schema)
            /\ UNCHANGED <<player_stats, clog, cin>>
       ELSE LET built == build_players_table(db, statsResult[1]) IN
            /\ player_stats' = statsResult
            /\ cin' = [cin EXCEPT !.stats = statsBody]
            /\ db' = built.store
            /\ clog' = clog \o <<Event("stats_fetched", <<>>), Event("stats_persist", <<>>)>>
            /\ cerr' = built.err
            /\ cpc' = IF built.err = <<>> THEN "loop" ELSE "aborted"
    /\ UNCHANGED <<task, max_retries, getVars, ftvVars, frame>>
    /\ UNCHANGED <<cargs, transfer_records, runs, prev>>

\* The stats phase has ended.  Its exception ends the run; otherwise
\* connect() and build_players_table(connection, player_stats), whose
\* exception ends the run too.
CollectStats ==
    /\ cpc = "stats"
    /\ spc \in {"done", "raised"}
    /\ stats_leave
    /\ IF spc = "raised"
       THEN /\ cpc' = "aborted"
            /\ cerr' = statsRaised
            /\ UNCHANGED <<db, player_stats, clog, cin>>
       ELSE LET built == build_players_table(db, statsResult[1]) IN
            /\ player_stats' = statsResult
            /\ cin' = [cin EXCEPT !.stats = statsBody]
            /\ db' = built.store
            /\ clog' = clog \o <<Event("stats_fetched", <<>>), Event("stats_persist", <<>>)>>
            /\ cerr' = built.err
            /\ cpc' = IF built.err = <<>> THEN "loop" ELSE "aborted"
    /\ UNCHANGED <<task, max_retries, getVars, ftvVars, frame>>
    /\ UNCHANGED <<cargs, transfer_records, runs, prev>>

\* for player in player_stats["Player"].tolist(): from the return of one
\* fetch_transfer_value call (its record is appended) to the call for the next
\* player, or past the last one to build_transfers_table.
CollectLoop ==
    /\ cpc = "loop"
    /\ fpc \in {"idle", "done", "raised"}
    /\ LET names == player_list(player_stats[1])
           records == IF fpc = "done" THEN Append(transfer_records, ftvResult[1])
                      ELSE transfer_records
       IN IF fpc = "raised"
          THEN /\ cpc' = "aborted"
               /\ cerr' = ftvRaised
               /\ ftv_leave
               /\ UNCHANGED <<db, transfer_records, clog, cin>>
          ELSE IF Len(records) < Len(names)
          THEN /\ ftv_enter(names[Len(records) + 1], cargs[1].season)
               /\ transfer_records' = records
               /\ cin' = [cin EXCEPT !.records = records]
               /\ clog' = Append(clog, Event("ftv_call", names[Len(records) + 1]))
               /\ UNCHANGED <<db, cpc, cerr>>
          ELSE LET built == build_transfers_table(db, records) IN
               /\ ftv_leave
               /\ transfer_records' = records
               /\ cin' = [cin EXCEPT !.records = records]
               /\ db' = built.store
               /\ clog' = Append(clog, Event("transfers_persist", <<>>))
               /\ cerr' = built.err
               /\ cpc' = IF built.err = <<>> THEN "done" ELSE "aborted"
    /\ UNCHANGED <<task, max_retries, getVars, statsVars, frame>>
    /\ UNCHANGED <<cargs, player_stats, runs, prev>>

\* The run is over, by return or by exception; the store stays as it is.
FinishCollect ==
    /\ task = "collect"
    /\ cpc \in {"done", "aborted"}
    /\ task' = "none"
    /\ runs' = runs + 1
    /\ prev' = <<[args |-> cargs[1], served |-> cin, ended |-> cpc, store |-> db]>>
    /\ collect_leave
    /\ UNCHANGED <<max_retries, getVars, ftvVars, statsVars, frame, db>>

\* ------------------------------------------------ entry point: client.get

\* The client and the two scrapers are also called on their own.  These calls
\* leave the store alone, so they are followed only ahead of the first run of
\* collect.

OtherUrl == <<"https://example.org/">>
CallerKwargs == {<<>>} \cup {[k \in {"timeout"} |-> t] : t \in {5, 60}}

StartGet ==
    /\ task = "none"
    /\ runs = 0
    /\ task' = "get"
    /\ \E kw \in CallerKwargs : get_enter(OtherUrl, kw)
    /\ UNCHANGED <<max_retries, ftvVars, statsVars, frame, collectVars>>

FinishGet ==
    /\ task = "get"
    /\ gpc \in {"returned", "raised"}
    /\ task' = "none"
    /\ get_leave
    /\ UNCHANGED <<max_retries, ftvVars, statsVars, frame, collectVars>>

\* ------------------------------------------------------------ specification

FrameIdle == [pc |-> "idle"]

\* ------------------------------- the DataFrame functions, table by table

Rows(choices) == UNION {[1..n -> choices] : n \in 1..MaxRows}

MinutesTexts == {<<>>, T("45"), T("90"), T("91"), T("x")}

\* Player, Min, Gls: rows of one player and repeated header rows.
FrameTablesMin ==
    {[columns |-> <<"Player", "Min", "Gls">>, cells |-> c] :
        c \in Rows({<<T("Player"), T("Min"), T("Gls")>>}
                      \cup {<<T("Ann"), m, g>> : m \in MinutesTexts, g \in {T("12"), <<>>}})}

\* Two of the candidate columns, the later candidate first in the table.
FrameTablesTwo ==
    {[columns |-> <<"Player", "Minutes", "Playing Time Min">>, cells |-> c] :
        c \in Rows({<<T("Player"), T("Minutes"), T("Min")>>}
                      \cup {<<T("Bob"), m, p>> : m \in {T("91"), T("x")},
                                                 p \in {T("45"), T("90"), T("91")}})}

\* None of the candidate columns.
FrameTablesNone ==
    {[columns |-> <<"Player", "Gls">>, cells |-> c] :
        c \in Rows({<<T("Player"), T("Gls")>>, <<T("Ann"), T("12")>>, <<T("Ann"), <<>>>>})}

\* Minutes 45, 90, 91 and "n/a".
ExampleTable ==
    [columns |-> <<"Player", "Min", "Gls">>,
     cells |-> <<<<T("Ann"), T("45"), T("12")>>, <<T("Bob"), T("90"), T("12")>>,
                 <<T("Cy"), T("91"), T("12")>>, <<T("Di"), T("n/a"), T("12")>>>>]

FrameTables == FrameTablesMin \cup FrameTablesTwo \cup FrameTablesNone \cup {ExampleTable}

\* collect_player_stats applied to the table.
FrameCollect ==
    /\ frame.pc = "start"
    /\ LET r == stats_from_page([table |-> <<frame.table>>, info |-> <<>>, head |-> <<>>],
                                frame.season, frame.min_minutes) IN
       frame' = [frame EXCEPT !.pc = IF r.err = <<>> THEN "filtered" ELSE "raised",
                              !.raw = <<parse_player_table(frame.table)>>,
                              !.out = r.df,
                              !.err = r.err]
    /\ UNCHANGED <<task, max_retries, getVars, ftvVars, statsVars, collectVars>>

\* build_players_table's schema of the result.
FrameSchema ==
    /\ frame.pc = "filtered"
    /\ frame' = [frame EXCEPT !.pc = "schema", !.schema = <<players_schema(frame.out[1])>>]
    /\ UNCHANGED <<task, max_retries, getVars, ftvVars, statsVars, collectVars>>


\* --------------------------- create_table and upsert_rows, call by call

StoreIdle == [pc |-> "store", op |-> "none", batch |-> <<>>, keys |-> <<>>,
              err |-> <<>>, before |-> <<>>]

StoreColumns == <<"Player", "Season", "Gls">>

\* Column definitions without a key, and with Player the primary key.
StoreSchemas ==
    {[columns |-> StoreColumns, type |-> [c \in SeqSet(StoreColumns) |-> "TEXT"]],
     [columns |-> StoreColumns,
      type |-> [c \in SeqSet(StoreColumns) |->
                   IF c = "Player" THEN "TEXT PRIMARY KEY" ELSE "TEXT"]]}

StoreRecord(player, gls) ==
    [columns |-> StoreColumns,
     cells |-> [c \in SeqSet(StoreColumns) |->
                   CASE c = "Player" -> Str(<<player>>)
                     [] c = "Season" -> Str(<<"2024", "-", "2025">>)
                     [] c = "Gls" -> Str(<<gls>>)]]

\* Batches of records, the same player twice among them.
StoreBatches ==
    {<<>>} \cup Rows({StoreRecord("Ann", "12"), StoreRecord("Ann", "45"), StoreRecord("Bob", "12")})

StoreKeys == {<<>>, <<"Player">>, <<"Player", "Season">>}

\* create_table(connection, "player_stats", schema)
StoreCreate ==
    /\ frame.pc = "store"
    /\ \E schema \in StoreSchemas :
        /\ db' = create_table(db, "player_stats", schema)
        /\ frame' = [StoreIdle EXCEPT !.op = "create", !.before = db["player_stats"]]
    /\ UNCHANGED <<task, max_retries, getVars, ftvVars, statsVars>>
    /\ UNCHANGED <<cpc, cargs, player_stats, transfer_records, cerr, clog, cin, runs, prev>>

\* upsert_rows(connection, "player_stats", batch, conflict_keys) on the table
\* as it is, while the table has room for the batch.
StoreUpsert ==
    /\ frame.pc = "store"
    /\ db["player_stats"] # <<>>
    /\ \E batch \in StoreBatches, keys \in StoreKeys :
        /\ Len(db["player_stats"][1].rows) + Len(batch) <= MaxRows
        /\ LET r == upsert_rows(db["player_stats"], batch, keys) IN
           /\ db' = [db EXCEPT !["player_stats"] = r.tbl]
           /\ frame' = [StoreIdle EXCEPT !.op = "upsert", !.batch = batch, !.keys = keys,
                                         !.err = r.err, !.before = db["player_stats"]]
    /\ UNCHANGED <<task, max_retries, getVars, ftvVars, statsVars>>
    /\ UNCHANGED <<cpc, cargs, player_stats, transfer_records, cerr, clog, cin, runs, prev>>

\* create_table, then upsert_rows keyed by Player and Season, as
\* build_players_table and build_transfers_table do.
StorePersist ==
    /\ frame.pc = "store"
    /\ \E schema \in StoreSchemas, batch \in StoreBatches :
        LET r == persist(db, "player_stats", schema, batch) IN
        /\ db' = r.store
        /\ frame' = [StoreIdle EXCEPT !.op = "persist", !.batch = batch,
                                      !.keys = <<"Player", "Season">>,
                                      !.err = r.err, !.before = db["player_stats"]]
    /\ UNCHANGED <<task, max_retries, getVars, ftvVars, statsVars>>
    /\ UNCHANGED <<cpc, cargs, player_stats, transfer_records, cerr, clog, cin, runs, prev>>

Init ==
    /\ task = "none"
    /\ max_retries \in 1..MaxRetriesBound
    /\ gpc = "idle"
    /\ url = <<>>
    /\ kwargs = <<>>
    /\ attempt = 0
    /\ last_error = <<>>
    /\ response = <<>>
    /\ raised = <<>>
    /\ waits = 0
    /\ issued = <<>>
    /\ fpc = "idle"
    /\ fargs = <<>>
    /\ cand = 0
    /\ ftvResult = <<>>
    /\ ftvRaised = <<>>
    /\ ftvLog = <<>>
    /\ spc = "idle"
    /\ sargs = <<>>
    /\ statsGets = 0
    /\ statsBody = <<>>
    /\ statsResult = <<>>
    /\ statsRaised = <<>>
    /\ frame = FrameIdle
    /\ db = EmptyStore
    /\ cpc = "idle"
    /\ cargs = <<>>
    /\ player_stats = <<>>
    /\ transfer_records = <<>>
    /\ cerr = <<>>
    /\ clog = <<>>
    /\ cin = [stats |-> <<>>, records |-> <<>>]
    /\ runs = 0
    /\ prev = <<>>

Next ==
    \/ StartGet
    \/ GetAttempt
    \/ GetExhausted
    \/ FinishGet
    \/ StartFtv
    \/ FtvTry
    \/ FtvGot
    \/ FtvNotFound
    \/ FinishFtv
    \/ StartStats
    \/ StatsFetch
    \/ StatsGot
    \/ FinishStats
    \/ StartCollect
    \/ CollectStats
    \/ CollectLoop
    \/ FinishCollect

Spec == Init /\ [][Next]_vars

InitFrame ==
    /\ task = "none"
    /\ max_retries = MaxRetriesBound
    /\ gpc = "idle"
    /\ url = <<>>
    /\ kwargs = <<>>
    /\ attempt = 0
    /\ last_error = <<>>
    /\ response = <<>>
    /\ raised = <<>>
    /\ waits = 0
    /\ issued = <<>>
    /\ fpc = "idle"
    /\ fargs = <<>>
    /\ cand = 0
    /\ ftvResult = <<>>
    /\ ftvRaised = <<>>
    /\ ftvLog = <<>>
    /\ spc = "idle"
    /\ sargs = <<>>
    /\ statsGets = 0
    /\ statsBody = <<>>
    /\ statsResult = <<>>
    /\ statsRaised = <<>>
    /\ frame \in {[pc |-> "start", table |-> t, season |-> <<"2024", "-", "2025">>,
                    min_minutes |-> m, raw |-> <<>>, out |-> <<>>, err |-> <<>>,
                    schema |-> <<>>] : t \in FrameTables, m \in Thresholds}
    /\ db = EmptyStore
    /\ cpc = "idle"
    /\ cargs = <<>>
    /\ player_stats = <<>>
    /\ transfer_records = <<>>
    /\ cerr = <<>>
    /\ clog = <<>>
    /\ cin = [stats |-> <<>>, records |-> <<>>]
    /\ runs = 0
    /\ prev = <<>>

NextFrame ==
    \/ FrameCollect
    \/ FrameSchema

\* The functions of fbref.py and the schema inference applied to tables.
SpecFrame == InitFrame /\ [][NextFrame]_vars

InitStore ==
    /\ task = "none"
    /\ max_retries = MaxRetriesBound
    /\ gpc = "idle"
    /\ url = <<>>
    /\ kwargs = <<>>
    /\ attempt = 0
    /\ last_error = <<>>
    /\ response = <<>>
    /\ raised = <<>>
    /\ waits = 0
    /\ issued = <<>>
    /\ fpc = "idle"
    /\ fargs = <<>>
    /\ cand = 0
    /\ ftvResult = <<>>
    /\ ftvRaised = <<>>
    /\ ftvLog = <<>>
    /\ spc = "idle"
    /\ sargs = <<>>
    /\ statsGets = 0
    /\ statsBody = <<>>
    /\ statsResult = <<>>
    /\ statsRaised = <<>>
    /\ frame = StoreIdle
    /\ db = EmptyStore
    /\ cpc = "idle"
    /\ cargs = <<>>
    /\ player_stats = <<>>
    /\ transfer_records = <<>>
    /\ cerr = <<>>
    /\ clog = <<>>
    /\ cin = [stats |-> <<>>, records |-> <<>>]
    /\ runs = 0
    /\ prev = <<>>

NextStore ==
    \/ StoreCreate
    \/ StoreUpsert
    \/ StorePersist

\* The functions of database.py called on one table, in any order.
SpecStore == InitStore /\ [][NextStore]_vars

\* ================================================================ properties

\* An attempt failed: a network error, or a status of the retryable set.
FailedOutcome(o) == o.kind = "exc" \/ o.status \in {429, 500, 502, 503, 504}

\* C1: when get returns, it returns the response of the first attempt k that
\* did not fail, after exactly k RateLimiter.wait calls and exactly k GETs, the
\* k-1 before it having failed, with 1 <= k <= max_retries.
C1_ReturnsFirstSuccess ==
    gpc = "returned" =>
        LET k == Len(issued) IN
        /\ k \in 1..max_retries
        /\ waits = k
        /\ \A i \in 1..(k - 1) : FailedOutcome(issued[i].outcome)
        /\ ~FailedOutcome(issued[k].outcome)
        /\ response = <<[status |-> issued[k].outcome.status,
                         body |-> issued[k].outcome.body, n |-> k]>>
        /\ raised = <<>>

\* 503, 503, 200: the 200 response is returned after three waits.
C1_Witness ==
    /\ gpc = "returned"
    /\ waits = 3
    /\ Len(issued) = 3
    /\ issued[1].outcome.status = 503
    /\ issued[2].outcome.status = 503
    /\ response # <<>>
    /\ response[1].status = 200

\* C2: when get raises, every one of exactly max_retries attempts failed and
\* the exception raised is the one of the last attempt.
C2_RaisesLastCause ==
    gpc = "raised" =>
        /\ Len(issued) = max_retries
        /\ waits = max_retries
        /\ \A i \in 1..max_retries : FailedOutcome(issued[i].outcome)
        /\ raised # <<>>
        /\ raised[1].at = max_retries
        /\ LET o == issued[max_retries].outcome IN
           IF o.kind = "exc"
           THEN raised[1].type = o.exc
           ELSE raised[1].type = "HTTPError" /\ raised[1].status = o.status
        /\ response = <<>>

\* Three failures of different kinds: the third one's error is raised.
C2_Witness ==
    /\ gpc = "raised"
    /\ max_retries = 3
    /\ issued[1].outcome.kind = "exc"
    /\ issued[2].outcome.status = 429
    /\ issued[3].outcome.status = 503
    /\ raised[1].status = 503

\* C5: fetch_transfer_value lets no exception through; it tries the candidates
\* in order whatever way the previous one ended without a value (an exhausted
\* fetch included); and when none yields a value it returns the record of the
\* given player and season with value, currency and url all None.
C5_NotFoundIsNullRecord ==
    /\ fpc # "raised"
    /\ ftvRaised = <<>>
    /\ fpc \in {"next", "fetching", "done"} =>
        /\ \A i \in 1..Len(ftvLog) : ftvLog[i].url = candidate_urls(fargs[1].player_name)[i]
        /\ \A i \in 1..(Len(ftvLog) - 1) : ftvLog[i].how \in {"error", "novalue"}
    /\ (fpc = "next" /\ ftvLog # <<>>) => cand = Len(ftvLog) + 1
    /\ (fpc = "done" /\ \A i \in 1..Len(ftvLog) : ftvLog[i].how # "value") =>
        /\ Len(ftvLog) = 2
        /\ ftvResult = <<[player |-> fargs[1].player_name, season |-> fargs[1].season,
                          transfer_value |-> None, currency |-> None, url |-> None]>>

\* Both candidate fetches ran out of retries and the null record came back.
C5_Witness ==
    /\ fpc = "done"
    /\ Len(ftvLog) = 2
    /\ ftvLog[1].how = "error"
    /\ ftvLog[2].how = "error"
    /\ ftvResult # <<>>
    /\ ftvResult[1].url = None

\* C8: a stats page without the table makes the scraper raise ValueError at
\* once: that one download is the only client.get call it makes, nothing is
\* returned and no further download is under way.
C8_TableNotFound ==
    /\ spc \in {"fetching", "done", "raised"} => statsGets = 1
    /\ (statsBody # <<>> /\ statsBody[1].table = <<>>) =>
        /\ spc = "raised"
        /\ statsRaised = <<[type |-> "ValueError", status |-> 0, at |-> 0]>>
        /\ statsResult = <<>>
        /\ gpc = "idle"

\* A page without the table was downloaded and ValueError came out.
C8_Witness ==
    /\ spc = "raised"
    /\ statsBody # <<>>
    /\ statsBody[1].table = <<>>
    /\ statsRaised # <<>>
    /\ statsRaised[1].type = "ValueError"
    /\ statsGets = 1

\* The number a minutes value stands for, if it is numeric.
NumericValue(v) ==
    IF v.t = "num" THEN <<v.n>>
    ELSE IF v.t = "str" /\ v.s \in {T("12"), T("45"), T("90"), T("91")}
         THEN <<CHOOSE k \in {12, 45, 90, 91} : ParseNumber(v.s) = <<k>>>>
    ELSE <<>>

\* C9: the rows retained are exactly the rows whose value in the first
\* candidate column that exists is numeric and strictly above the threshold,
\* in their order and otherwise unchanged; and KeyError is raised exactly
\* when none of the candidate columns exists.
C9_MinutesFilter ==
    frame.pc \in {"filtered", "raised", "schema"} =>
        LET raw == frame.raw[1]
            cols == {raw.columns[j] : j \in 1..Len(raw.columns)}
            cands == <<"Playing Time Min", "Playing Time Min 90s", "Min", "Minutes">>
            here == {k \in 1..4 : cands[k] \in cols}
        IN IF here = {}
           THEN frame.pc = "raised" /\ frame.err = <<[type |-> "KeyError", status |-> 0, at |-> 0]>>
           ELSE LET c == cands[CHOOSE k \in here : \A m \in here : k <= m]
                    Above(r) == /\ NumericValue(r[c]) # <<>>
                                /\ NumericValue(r[c])[1] > frame.min_minutes
                    want == SelectSeq(raw.rows, Above)
                    got == frame.out[1].rows
                IN /\ frame.pc # "raised"
                   /\ Len(got) = Len(want)
                   /\ \A i \in 1..Len(want) :
                        /\ got[i][c] = Num(NumericValue(want[i][c])[1])
                        /\ \A d \in cols \ {c} : got[i][d] = want[i][d]

\* Of the minutes 45, 90, 91 and "n/a" only the row with 91 passes 90.
C9_Witness ==
    /\ frame.pc = "filtered"
    /\ frame.table = ExampleTable
    /\ frame.min_minutes = 90
    /\ Len(frame.out[1].rows) = 1
    /\ frame.out[1].rows[1]["Player"] = Str(T("Cy"))
    /\ frame.out[1].rows[1]["Min"] = Num(91)

\* C10 as claimed: a column is REAL if and only if it has a value that is
\* not absent and every such value parses as a number, and TEXT otherwise.
C10_SchemaByParsing ==
    frame.pc = "schema" =>
        LET df == frame.out[1]
            schema == frame.schema[1]
        IN \A c \in {df.columns[j] : j \in 1..Len(df.columns)} :
            LET present == {i \in 1..Len(df.rows) : df.rows[i][c].t \notin {"nan", "none"}}
                parses == present # {} /\ \A i \in present : NumericValue(df.rows[i][c]) # <<>>
            IN schema.type[c] = IF parses THEN "REAL" ELSE "TEXT"

\* The (Player, Season) pairs of a list of rows, and whether each occurs once.
KeysOf(rows) == {<<rows[i]["Player"], rows[i]["Season"]>> : i \in 1..Len(rows)}
NoDuplicateKeys(rows) ==
    \A i, j \in 1..Len(rows) :
        (rows[i]["Player"] = rows[j]["Player"] /\ rows[i]["Season"] = rows[j]["Season"]) => i = j

\* The rows a table holds, none when there is no such table.
StoredRows(store, name) == IF store[name] = <<>> THEN <<>> ELSE store[name][1].rows

\* The table holds the batch, upserted by key: no key twice, and for every
\* record of the batch a row that carries, in every column, the values of the
\* last record of the batch with that key.
HoldsBatch(store, name, batch) ==
    LET rows == StoredRows(store, name) IN
    /\ store[name] # <<>>
    /\ NoDuplicateKeys(rows)
    /\ \A i \in 1..Len(batch) :
        LET same == {j \in 1..Len(batch) :
                        /\ batch[j].cells["Player"] = batch[i].cells["Player"]
                        /\ batch[j].cells["Season"] = batch[i].cells["Season"]}
            last == CHOOSE j \in same : \A k \in same : k <= j
        IN \E r \in 1..Len(rows) :
            \A c \in DOMAIN batch[last].cells : rows[r][c] = batch[last].cells[c]

\* C3 as claimed: once a batch has been persisted, its table holds no two
\* rows with the same (Player, Season), and every record of the batch is there
\* under its key with the values of the latest write for that key.
C3_UpsertByKey ==
    /\ \A n \in {"player_stats", "player_transfers"} : NoDuplicateKeys(StoredRows(db, n))
    /\ (cpc \in {"loop", "done", "aborted"} /\ player_stats # <<>>) =>
        HoldsBatch(db, "player_stats", prepared_rows(player_stats[1]))
    /\ (cpc \in {"done", "aborted"} /\ clog # <<>> /\ clog[Len(clog)].ev = "transfers_persist") =>
        HoldsBatch(db, "player_transfers", transfer_rows(transfer_records))

C7_StepOrder ==
    (cpc \in {"done", "aborted"} /\ player_stats # <<>>) =>
        LET names == [i \in 1..Len(player_stats[1].rows) |->
                         player_stats[1].rows[i]["Player"].s]
        IN clog = <<[ev |-> "stats_fetched", who |-> <<>>], [ev |-> "stats_persist", who |-> <<>>]>>
                    \o [i \in 1..Len(names) |-> [ev |-> "ftv_call", who |-> names[i]]]
                    \o <<[ev |-> "transfers_persist", who |-> <<>>]>>

\* The rows of the table at the moment an upsert_rows call of SpecStore
\* stopped: the table before the call with the records ahead of the failing
\* one written to it.
FlushedBeforeError ==
    LET tbl == frame.before[1]
        columns == frame.batch[1].columns
        values == [i \in 1..Len(frame.batch) |->
                      [c \in SeqSet(columns) |-> RowGet(frame.batch[i].cells, c)]]
    IN ExecuteMany(tbl, tbl.rows, values, columns, frame.keys).rows

FailedPartWay ==
    /\ frame.pc = "store"
    /\ frame.op = "upsert"
    /\ frame.err # <<>>
    /\ frame.err[1].type = "IntegrityError"

\* C11 as claimed: a batched write that fails part-way leaves the table with
\* the records that were written before the failing one.
C11_PartialSubset ==
    FailedPartWay => db["player_stats"][1].rows = FlushedBeforeError

\* C11, amended: a batched write that fails leaves none of its records: the
\* table is as it was before the batch, and after persist it is the empty
\* table that create_table has just made.
C11_FailedBatchRolledBack ==
    (frame.pc = "store" /\ frame.err # <<>>) =>
        /\ frame.op = "upsert" => db["player_stats"] = frame.before
        /\ frame.op = "persist" =>
            /\ db["player_stats"] # <<>>
            /\ db["player_stats"][1].rows = <<>>

\* A batch failed at a later record, on a table that held rows before it.
C11_Witness ==
    /\ FailedPartWay
    /\ frame.before[1].rows # <<>>
    /\ FlushedBeforeError # frame.before[1].rows
    /\ db["player_stats"] = frame.before

\* The node of a valuation page that is read, and whether its text holds
\* anything besides white space and one leading currency symbol.
ValueText(page) == IF page.info # <<>> THEN page.info[1]
                   ELSE IF page.head # <<>> THEN page.head[1] ELSE <<>>
YieldsValue(page) ==
    LET text == ValueText(page)
        solid == {i \in 1..Len(text) : Strip(<<text[i]>>) # <<>>}
    IN \E i \in solid :
        \/ \E k \in solid : k < i
        \/ text[i] \notin {"€", "£", "$"}

\* C12: fetch_transfer_value downloads the candidates in list order, the base
\* URL and then its "/profile" variant; a page that yields no value, or a bare
\* currency symbol, sends it to the next candidate; the first page that
\* yields a value ends the call with a record that carries that page's URL,
\* and no further candidate is downloaded.
C12_CandidatesInOrder ==
    /\ [](fpc \in {"next", "fetching", "done"} =>
            LET urls == candidate_urls(fargs[1].player_name) IN
            /\ urls = <<urls[1], urls[1] \o <<"/profile">>>>
            /\ Len(ftvLog) <= Len(urls)
            /\ \A i \in 1..Len(ftvLog) : ftvLog[i].url = urls[i]
            /\ fpc = "fetching" => url = urls[Len(ftvLog) + 1]
            /\ (fpc = "done" /\ ftvResult[1].transfer_value # None) =>
                /\ ftvLog # <<>>
                /\ ftvResult[1].url = Str(ftvLog[Len(ftvLog)].url)
                /\ ftvLog[Len(ftvLog)].how = "value"
                /\ \A i \in 1..(Len(ftvLog) - 1) : ftvLog[i].how # "value")
    /\ [][(fpc = "fetching" /\ gpc = "returned") =>
            IF YieldsValue(response[1].body)
            THEN /\ fpc' = "done"
                 /\ ftvResult'[1].transfer_value # None
                 /\ ftvResult'[1].url = Str(url)
            ELSE /\ fpc' = "next"
                 /\ cand' = cand + 1
                 /\ ftvResult' = <<>>]_vars
    /\ [][fpc = "done" => (fpc' # "fetching" /\ gpc' = "idle")]_vars

\* The base page yielded no value and was passed over; the record carries the
\* "/profile" URL.
C12_Witness ==
    /\ fpc = "done"
    /\ Len(ftvLog) = 2
    /\ ftvLog[1].how = "novalue"
    /\ ftvLog[2].how = "value"
    /\ ftvResult[1].url = Str(candidate_urls(fargs[1].player_name)[2])
    /\ ftvResult[1].transfer_value # None

\* The store as it was when the run of collect under way began.
StoreBeforeRun == IF runs = 0 THEN EmptyStore ELSE prev[1].store

\* C13: a run of collect whose stats phase raised (the download ran out of
\* retries, no stats table, no minutes column) ends there with that exception:
\* no table was dropped, created or written, no valuation was asked for, and
\* the store is what it was before the run.
C13_StatsFailureLeavesStore ==
    /\ []((task = "collect" /\ cpc = "aborted" /\ player_stats = <<>>) =>
            /\ cerr # <<>>
            /\ cerr[1].type \in {"ValueError", "KeyError", "ConnectionError", "Timeout", "HTTPError"}
            /\ clog = <<>>
            /\ transfer_records = <<>>
            /\ fpc = "idle"
            /\ db = StoreBeforeRun)
    /\ [][(cpc = "stats" /\ spc = "raised") =>
            /\ cpc' = "aborted"
            /\ cerr' = statsRaised
            /\ player_stats' = <<>>
            /\ db' = db
            /\ fpc' = "idle"]_vars

\* A second run fails for want of a minutes column, on a store in which the
\* first run had left a table.
C13_Witness ==
    /\ task = "collect"
    /\ cpc = "aborted"
    /\ player_stats = <<>>
    /\ cerr # <<>>
    /\ cerr[1].type = "KeyError"
    /\ runs = 1
    /\ prev[1].store["player_stats"] # <<>>
    /\ db = prev[1].store

\* The stats phase of a run failed because the download ran out of retries.
C13_WitnessExhausted ==
    /\ task = "collect"
    /\ cpc = "aborted"
    /\ player_stats = <<>>
    /\ cerr # <<>>
    /\ cerr[1].type \in {"ConnectionError", "Timeout", "HTTPError"}

\* The table holds the records of the batch, the last one of each (Player,
\* Season), and no other row.
ExactlyBatch(store, name, batch) ==
    LET rows == StoredRows(store, name)
        Latest(i) == \A j \in (i + 1)..Len(batch) :
                        \/ batch[j].cells["Player"] # batch[i].cells["Player"]
                        \/ batch[j].cells["Season"] # batch[i].cells["Season"]
    IN /\ store[name] # <<>>
       /\ \A i \in 1..Len(batch) : Latest(i) =>
              \E r \in 1..Len(rows) :
                  \A c \in DOMAIN batch[i].cells : rows[r][c] = batch[i].cells[c]
       /\ \A r \in 1..Len(rows) : \E i \in 1..Len(batch) :
              \A c \in DOMAIN batch[i].cells : rows[r][c] = batch[i].cells[c]

C15_SameTimeoutEveryAttempt ==
    /\ [](\A i \in 1..Len(issued) : issued[i].timeout = issued[1].timeout)
    /\ [][(gpc = "loop" /\ issued = <<>> /\ issued' # <<>>) =>
            issued'[1].timeout = IF "timeout" \in DOMAIN kwargs THEN kwargs["timeout"] ELSE 30]_vars

====
